---- MODULE Spec2Model ----
(***************************************************************************)
(* Model of progress_bar.main.run_parallel (src/progress_bar/main.py).     *)
(* The calling thread validates the executor tag, probes the length of the *)
(* iterable, opens a pool, submits one task per item, wraps the completion *)
(* stream in the progress monitor and consumes it; the pool's workers run  *)
(* the user function concurrently.  Leaving the `with` block shuts the     *)
(* pool down and waits for its workers.                                    *)
(***************************************************************************)
EXTENDS Integers, Sequences, FiniteSets

\* ---------------------------------------------------------------- bounds
MaxLen == 3             \* longest input iterable explored
Invocations == 2        \* standalone calls of the progress wrapper explored
MaxWorkersArg == 2      \* largest explicit max_workers explored
HostParallelism == 2    \* workers the pool uses when max_workers is None

\* an optional value is a tuple: None is the empty one, Some(v) holds v
None == <<>>

Some(v) == <<v>>

ItemValues == {1, 2, -1}

\* ------------------------------------------------------------ user function
\* The user function of the spec's scenarios: raises on a negative input,
\* otherwise returns a value (distinct from the item, so that a result can
\* be told from its input).
Raises(x) == x < 0

func(x) == x + 10

\* --------------------------------------------------------- executor tags
\* A tag is the tuple of its characters.
thread == <<"t", "h", "r", "e", "a", "d">>

process == <<"p", "r", "o", "c", "e", "s", "s">>

Tags == { thread,
          <<"T", "H", "R", "E", "A", "D">>,
          process,
          <<"P", "r", "o", "c", "e", "s", "s">>,
          <<"f", "o", "r", "k">>,
          <<>> }

\* str.lower() on one character
LowerChar(c) ==
    CASE c = "T" -> "t"
      [] c = "H" -> "h"
      [] c = "R" -> "r"
      [] c = "E" -> "e"
      [] c = "A" -> "a"
      [] c = "D" -> "d"
      [] c = "P" -> "p"
      [] c = "O" -> "o"
      [] c = "C" -> "c"
      [] c = "S" -> "s"
      [] OTHER -> c

\* mutant: the tag is compared as given
LowerMut(s) == s

\* exec_type = executor.lower()
Lower(s) == [i \in DOMAIN s |-> LowerChar(s[i])]

\* mutant: the membership test accepts every tag
RecognizedMut(exec_type) == TRUE

\* exec_type in ('thread', 'process')
Recognized(exec_type) == exec_type \in {thread, process}

\* ExecPool = ThreadPoolExecutor if exec_type == 'thread' else ProcessPoolExecutor
ExecPoolOf(exec_type) ==
    IF exec_type = thread THEN "ThreadPoolExecutor" ELSE "ProcessPoolExecutor"

\* mutant: the pool constructor rejects only negative worker counts
PoolRejectsMut(mw) == mw # None /\ mw[1] < 0

\* ExecPool(max_workers=...) raises ValueError for max_workers <= 0
PoolRejects(mw) == mw # None /\ mw[1] <= 0

\* mutant: the pool admits one worker more than configured
WorkerLimitMut(mw) == IF mw = None THEN HostParallelism + 1 ELSE mw[1] + 1

\* the pool's worker limit
WorkerLimit(mw) == IF mw = None THEN HostParallelism ELSE mw[1]

\* ------------------------------------------------------------------ state
VARIABLES
    executor,       \* argument: the strategy tag
    max_workers,    \* argument: None or an integer
    iterable,       \* argument: the items, in iteration order
    hasLen,         \* whether len(iterable) is defined (FALSE: a generator)
    pc,             \* position of the calling thread
    error,          \* exception in flight or raised ("none" if none)
    ExecPool,       \* the executor class selected ("none" before)
    total,          \* local `total`
    pool,           \* "none" | "open" | "shutdown" | "closed"
    workers,        \* worker threads/processes alive
    drawn,          \* items drawn from the iterable so far
    args,           \* per future: the item it was submitted with
    fstate,         \* per future: "pending" | "running" | "done"
    outcome,        \* per finished future: [ok, value]
    work_queue,     \* futures waiting for a worker, FIFO
    doneOrder,      \* futures in the order they finished
    calls,          \* invocations of func so far
    initDone,       \* futures already finished when as_completed started
    yielded,        \* futures yielded by the completion stream, in order
    future,         \* loop variable `future` (0 outside the loop body)
    sinkTotal,      \* total hint the progress monitor was created with
    advances,       \* progress advances so far
    results,        \* local `results`
    log,            \* records written by logger.error
    handled,        \* per future: loop bodies completed for it
    ret,            \* None until return, then Some(the list returned)
    ipython,        \* whether get_ipython() returns a shell
    bars            \* per standalone call of the progress wrapper: its bar

inputs == <<executor, max_workers, iterable, hasLen>>

poolVars == <<pool, workers, args, fstate, outcome, work_queue, doneOrder, calls>>

aggVars == <<initDone, yielded, future, sinkTotal, advances, results, log, handled>>

vars == <<executor, max_workers, iterable, hasLen, pc, error, ExecPool, total,
          pool, workers, drawn, args, fstate, outcome, work_queue, doneOrder,
          calls,
          initDone, yielded, future, sinkTotal, advances, results, log,
          handled, ret, ipython, bars>>

wrapVars == <<ipython, bars>>

\* a future that holds neither a value nor an exception yet
NotRun == [set |-> FALSE, ok |-> FALSE, value |-> 0]

SeqsUpTo(S, n) == UNION {[1..k -> S] : k \in 0..n}

N == Len(iterable)

Futures == 1..Len(fstate)

ToSet(s) == {s[i] : i \in DOMAIN s}

\* the name future_to_item is bound nowhere in the module: a mapping with
\* no entry
future_to_item == <<>>

\* the two copies of the progress wrapper
WrapperNames == {"setup_progress_monitor", "progress_bar"}

\* a standalone call that has not been made yet
NoBar == [made |-> FALSE, fn |-> "none", backend |-> "none", total |-> None,
          n |-> 0, pos |-> 0, out |-> <<>>, closed |-> FALSE]

Init ==
    /\ executor \in Tags
    /\ max_workers \in {None} \cup {Some(n) : n \in -1..MaxWorkersArg}
    /\ iterable \in SeqsUpTo(ItemValues, MaxLen)
    /\ hasLen \in BOOLEAN
    /\ pc = "call"
    /\ error = "none"
    /\ ExecPool = "none"
    /\ total = None
    /\ pool = "none"
    /\ workers = 0
    /\ drawn = 0
    /\ args = <<>>
    /\ fstate = <<>>
    /\ outcome = <<>>
    /\ work_queue = <<>>
    /\ doneOrder = <<>>
    /\ calls = 0
    /\ initDone = {}
    /\ yielded = <<>>
    /\ future = 0
    /\ sinkTotal = None
    /\ advances = 0
    /\ results = <<>>
    /\ log = <<>>
    /\ handled = <<>>
    /\ ret = None
    /\ ipython = FALSE
    /\ bars = [w \in 1..Invocations |-> NoBar]

\* ----------------------------------------------------- the calling thread
\* lines 87-92: validate the tag and select the executor class
Validate ==
    /\ pc = "call"
    /\ IF Recognized(Lower(executor))
         THEN /\ ExecPool' = ExecPoolOf(Lower(executor))
              /\ pc' = "probe"
              /\ error' = error
         ELSE /\ pc' = "raised"
              /\ error' = "ValueError"
              /\ ExecPool' = ExecPool
    /\ UNCHANGED wrapVars
    /\ UNCHANGED <<inputs, total, drawn, ret>>
    /\ UNCHANGED poolVars
    /\ UNCHANGED aggVars

\* mutant: when len() is not defined the items are counted by iterating
ProbeDrawsMut == IF hasLen THEN 0 ELSE N

\* len(iterable) draws no item from the iterable, whether it succeeds or
\* raises
ProbeDraws == 0

\* mutant: a failing len() leaves a total of 0
ProbedTotalMut == IF hasLen THEN Some(Len(iterable)) ELSE Some(0)

\* the value of `total` after the try/except around len(iterable)
ProbedTotal == IF hasLen THEN Some(Len(iterable)) ELSE None

\* lines 94-99: total = len(iterable), None when len() raises
ProbeLen ==
    /\ pc = "probe"
    /\ total' = ProbedTotal
    /\ drawn' = drawn + ProbeDraws
    /\ pc' = "create"
    /\ UNCHANGED wrapVars
    /\ UNCHANGED <<inputs, error, ExecPool, ret>>
    /\ UNCHANGED poolVars
    /\ UNCHANGED aggVars

\* lines 101-102: results = [] and ExecPool(max_workers=max_workers)
CreatePool ==
    /\ pc = "create"
    /\ IF PoolRejects(max_workers)
         THEN /\ pc' = "raised"
              /\ error' = "ValueError"
              /\ pool' = pool
         ELSE /\ pc' = "submit"
              /\ pool' = "open"
              /\ error' = error
    /\ results' = <<>>
    /\ UNCHANGED wrapVars
    /\ UNCHANGED <<inputs, ExecPool, total, drawn, ret>>
    /\ UNCHANGED <<workers, args, fstate, outcome, work_queue, doneOrder, calls>>
    /\ UNCHANGED <<initDone, yielded, future, sinkTotal, advances, log, handled>>

\* mutant: the comprehension stops after the first item
ExhaustedMut == drawn = N \/ drawn = 1

\* the comprehension of line 104 ends when the iterable has no next item
Exhausted == drawn = N

\* line 104: one pool.submit(func, item) of the comprehension.  The pool
\* queues the work item and starts a worker unless one is idle or the limit
\* is reached.
Submit ==
    /\ pc = "submit"
    /\ drawn < N
    /\ drawn' = drawn + 1
    /\ args' = Append(args, iterable[drawn + 1])
    /\ fstate' = Append(fstate, "pending")
    /\ outcome' = Append(outcome, NotRun)
    /\ handled' = Append(handled, 0)
    /\ work_queue' = Append(work_queue, drawn + 1)
    /\ \/ /\ workers < WorkerLimit(max_workers)
          /\ workers' = workers + 1
       \/ /\ workers > 0 \/ workers >= WorkerLimit(max_workers)
          /\ workers' = workers
    /\ UNCHANGED wrapVars
    /\ UNCHANGED <<inputs, pc, error, ExecPool, total, ret>>
    /\ UNCHANGED <<pool, doneOrder, calls>>
    /\ UNCHANGED <<initDone, yielded, future, sinkTotal, advances, results, log>>

\* lines 106-108: the iterable is exhausted; the progress monitor is created
\* over as_completed(futures), which first notes the futures already done
StartMonitor ==
    /\ pc = "submit"
    /\ Exhausted
    /\ sinkTotal' = total
    /\ advances' = 0
    /\ initDone' = {f \in Futures : fstate[f] = "done"}
    /\ pc' = "next"
    /\ UNCHANGED wrapVars
    /\ UNCHANGED <<inputs, error, ExecPool, total, drawn, ret>>
    /\ UNCHANGED poolVars
    /\ UNCHANGED <<yielded, future, results, log, handled>>

\* the futures the completion stream may yield next: those that were done
\* when it started, in no particular order, then the others as they finish
NextReady ==
    IF initDone \ ToSet(yielded) # {}
      THEN initDone \ ToSet(yielded)
      ELSE LET later == SelectSeq(doneOrder, LAMBDA f : f \notin ToSet(yielded))
           IN  IF later = <<>> THEN {} ELSE {Head(later)}

\* line 106: the for loop takes the next completed future
NextCompletion ==
    /\ pc = "next"
    /\ Len(yielded) < Len(fstate)
    /\ \E f \in NextReady :
          /\ future' = f
          /\ yielded' = Append(yielded, f)
    /\ pc' = "body"
    /\ UNCHANGED wrapVars
    /\ UNCHANGED <<inputs, error, ExecPool, total, drawn, ret>>
    /\ UNCHANGED poolVars
    /\ UNCHANGED <<initDone, sinkTotal, advances, results, log, handled>>

\* lines 109-113: the loop body.  The lookup of the item comes first and is
\* outside the try; when the body completes the monitor advances by one.
ProcessCompletion ==
    /\ pc = "body"
    /\ IF future \in DOMAIN future_to_item
         THEN /\ IF outcome[future].ok
                   THEN /\ results' = Append(results, outcome[future].value)
                        /\ log' = log
                   ELSE /\ log' = Append(log, [item |-> future_to_item[future],
                                               err |-> "ItemError"])
                        /\ results' = results
              /\ handled' = [handled EXCEPT ![future] = @ + 1]
              /\ advances' = advances + 1
              /\ pc' = "next"
              /\ UNCHANGED <<error, pool>>
         ELSE /\ error' = "NameError"
              /\ pc' = "exit"
              /\ pool' = "shutdown"
              /\ UNCHANGED <<results, log, handled, advances>>
    /\ future' = 0
    /\ UNCHANGED wrapVars
    /\ UNCHANGED <<inputs, ExecPool, total, drawn, ret>>
    /\ UNCHANGED <<workers, args, fstate, outcome, work_queue, doneOrder, calls>>
    /\ UNCHANGED <<initDone, yielded, sinkTotal>>

\* line 106: the completion stream is exhausted, the loop ends and the
\* with block is left
EndLoop ==
    /\ pc = "next"
    /\ Len(yielded) = Len(fstate)
    /\ pc' = "exit"
    /\ pool' = "shutdown"
    /\ UNCHANGED wrapVars
    /\ UNCHANGED <<inputs, error, ExecPool, total, drawn, ret>>
    /\ UNCHANGED <<workers, args, fstate, outcome, work_queue, doneOrder, calls>>
    /\ UNCHANGED aggVars

\* mutant: shutdown does not wait for the workers
JoinedMut == TRUE

\* pool.__exit__: shutdown(wait=True) returns once every worker has exited
Joined == workers = 0

\* mutant: the function falls off its end without a return value
ReturnValueMut == None

\* line 114: return results
ReturnValue == Some(results)

\* lines 102/114: the with block is left, then the pending exception
\* propagates or results is returned
Leave ==
    /\ pc = "exit"
    /\ Joined
    /\ pool' = "closed"
    /\ IF error = "none"
         THEN /\ pc' = "returned"
              /\ ret' = ReturnValue
         ELSE /\ pc' = "raised"
              /\ ret' = ret
    /\ UNCHANGED wrapVars
    /\ UNCHANGED <<inputs, error, ExecPool, total, drawn>>
    /\ UNCHANGED <<workers, args, fstate, outcome, work_queue, doneOrder, calls>>
    /\ UNCHANGED aggVars

\* ------------------------------------------------------------ the workers
Running == {f \in Futures : fstate[f] = "running"}

\* a worker without a work item takes the head of the queue
StartTask ==
    /\ work_queue # <<>>
    /\ Cardinality(Running) < workers
    /\ fstate' = [fstate EXCEPT ![Head(work_queue)] = "running"]
    /\ work_queue' = Tail(work_queue)
    /\ UNCHANGED wrapVars
    /\ UNCHANGED <<inputs, pc, error, ExecPool, total, drawn, ret>>
    /\ UNCHANGED <<pool, workers, args, outcome, doneOrder, calls>>
    /\ UNCHANGED aggVars

\* what running func on an item leaves in its future
Run(x) ==
    IF Raises(x) THEN [set |-> TRUE, ok |-> FALSE, value |-> 0]
                 ELSE [set |-> TRUE, ok |-> TRUE, value |-> func(x)]

\* mutant: the worker itself appends the value to the shared result list
StoreOutcomeMut(f) ==
    /\ outcome' = [outcome EXCEPT ![f] = Run(args[f])]
    /\ results' = IF Run(args[f]).ok THEN Append(results, Run(args[f]).value)
                                     ELSE results
    /\ log' = log

\* the worker stores the value or the exception in the future, and writes
\* nothing else
StoreOutcome(f) ==
    /\ outcome' = [outcome EXCEPT ![f] = Run(args[f])]
    /\ UNCHANGED <<results, log>>

\* a worker finishes func(item): the future holds the value or the exception
FinishTask ==
    /\ \E f \in Running :
          /\ fstate' = [fstate EXCEPT ![f] = "done"]
          /\ StoreOutcome(f)
          /\ doneOrder' = Append(doneOrder, f)
    /\ calls' = calls + 1
    /\ UNCHANGED wrapVars
    /\ UNCHANGED <<inputs, pc, error, ExecPool, total, drawn, ret>>
    /\ UNCHANGED <<pool, workers, args, work_queue>>
    /\ UNCHANGED <<initDone, yielded, future, sinkTotal, advances, handled>>

\* after shutdown a worker that finds the queue empty exits
WorkerExit ==
    /\ pool = "shutdown"
    /\ work_queue = <<>>
    /\ Cardinality(Running) < workers
    /\ workers' = workers - 1
    /\ UNCHANGED wrapVars
    /\ UNCHANGED <<inputs, pc, error, ExecPool, total, drawn, ret>>
    /\ UNCHANGED <<pool, args, fstate, outcome, work_queue, doneOrder, calls>>
    /\ UNCHANGED aggVars

\* ------------------------------------------ the standalone progress wrapper
\* get_corresponding_tqdm: the notebook bar under IPython, else the standard
get_corresponding_tqdm(ip) == IF ip THEN "notebook_tqdm" ELSE "standard_tqdm"

\* mutant: the bars count in one shared counter, a new bar resumes from it
NewBarMut(name, tot) ==
    [made |-> TRUE, fn |-> name, backend |-> get_corresponding_tqdm(ipython),
     total |-> tot,
     n |-> IF \E v \in DOMAIN bars : bars[v].made
             THEN bars[CHOOSE v \in DOMAIN bars : bars[v].made].n ELSE 0,
     pos |-> 0, out |-> <<>>, closed |-> FALSE]

\* tqdm_obj(iterable, desc=..., colour=..., total=...): a new bar object with
\* its own counter and its own iterator over the iterable
NewBar(name, tot) ==
    [made |-> TRUE, fn |-> name, backend |-> get_corresponding_tqdm(ipython),
     total |-> tot, n |-> 0, pos |-> 0, out |-> <<>>, closed |-> FALSE]

\* the bar after the consumer asks for its next item: the bar counts the
\* item it handed out before, then hands out the next one or closes
Pulled(b) ==
    LET n1 == IF b.pos > b.n THEN b.n + 1 ELSE b.n
    IN  IF b.pos < N
          THEN [b EXCEPT !.n = n1, !.pos = b.pos + 1,
                         !.out = Append(b.out, iterable[b.pos + 1])]
          ELSE [b EXCEPT !.n = n1, !.closed = TRUE]

\* a standalone call of setup_progress_monitor / progress_bar
WrapCall ==
    /\ pc = "wrap"
    /\ \E w \in DOMAIN bars, name \in WrapperNames, tot \in {None, Some(N)} :
          /\ ~bars[w].made
          /\ bars' = [bars EXCEPT ![w] = NewBar(name, tot)]
    /\ UNCHANGED <<inputs, pc, error, ExecPool, total, drawn, ret, ipython>>
    /\ UNCHANGED poolVars
    /\ UNCHANGED aggVars

\* the consumer of one wrapper takes its next item
WrapPull ==
    /\ pc = "wrap"
    /\ \E w \in DOMAIN bars :
          /\ bars[w].made
          /\ ~bars[w].closed
          /\ bars' = [bars EXCEPT ![w] = Pulled(bars[w])]
    /\ UNCHANGED <<inputs, pc, error, ExecPool, total, drawn, ret, ipython>>
    /\ UNCHANGED poolVars
    /\ UNCHANGED aggVars

\* the wrapper is called on its own, outside run_parallel, over a static
\* sequence
WrapInit ==
    /\ executor = thread
    /\ max_workers = None
    /\ iterable \in SeqsUpTo(ItemValues, MaxLen)
    /\ hasLen = TRUE
    /\ pc = "wrap"
    /\ error = "none"
    /\ ExecPool = "none"
    /\ total = None
    /\ pool = "none"
    /\ workers = 0
    /\ drawn = 0
    /\ args = <<>>
    /\ fstate = <<>>
    /\ outcome = <<>>
    /\ work_queue = <<>>
    /\ doneOrder = <<>>
    /\ calls = 0
    /\ initDone = {}
    /\ yielded = <<>>
    /\ future = 0
    /\ sinkTotal = None
    /\ advances = 0
    /\ results = <<>>
    /\ log = <<>>
    /\ handled = <<>>
    /\ ret = None
    /\ ipython \in BOOLEAN
    /\ bars = [w \in 1..Invocations |-> NoBar]

WrapNext ==
    \/ WrapCall
    \/ WrapPull

WrapSpec == WrapInit /\ [][WrapNext]_vars

Next ==
    \/ Validate
    \/ ProbeLen
    \/ CreatePool
    \/ Submit
    \/ StartMonitor
    \/ NextCompletion
    \/ ProcessCompletion
    \/ EndLoop
    \/ Leave
    \/ StartTask
    \/ FinishTask
    \/ WorkerExit

Spec == Init /\ [][Next]_vars

\* the steps of the calling thread
MainThread ==
    \/ Validate
    \/ ProbeLen
    \/ CreatePool
    \/ Submit
    \/ StartMonitor
    \/ NextCompletion
    \/ ProcessCompletion
    \/ EndLoop
    \/ Leave

\* the steps of the pool's workers
Worker ==
    \/ StartTask
    \/ FinishTask
    \/ WorkerExit

\* The calling thread keeps running, each call of func terminates and the
\* workers are scheduled fairly.
FairSpec == Spec /\ WF_vars(MainThread) /\ WF_vars(Worker)

\* ------------------------------------------------------------ vocabulary
\* control has left run_parallel, by return or by an exception
Terminated == pc \in {"returned", "raised"}

\* the arguments pass both configuration checks
ValidConfig == Recognized(Lower(executor)) /\ ~PoolRejects(max_workers)

Failing == {i \in 1..N : Raises(iterable[i])}

Succeeding == (1..N) \ Failing

AllSucceed == Failing = {}

CountIn(s, v) == Cardinality({i \in DOMAIN s : s[i] = v})

SameBag(s, t) == \A v \in ToSet(s) \cup ToSet(t) : CountIn(s, v) = CountIn(t, v)

\* func(item) over the items of the index set I, in input order
RECURSIVE ValuesOf(_, _)
ValuesOf(i, I) ==
    IF i > N THEN <<>>
    ELSE IF i \in I THEN <<func(iterable[i])>> \o ValuesOf(i + 1, I)
                    ELSE ValuesOf(i + 1, I)

\* the items of the index set I, in input order
RECURSIVE ItemsOf(_, _)
ItemsOf(i, I) ==
    IF i > N THEN <<>>
    ELSE IF i \in I THEN <<iterable[i]>> \o ItemsOf(i + 1, I)
                    ELSE ItemsOf(i + 1, I)

\* the list returned (empty when nothing was returned)
Returned == IF ret = None THEN <<>> ELSE ret[1]

\* no task is queued or running, no worker is alive, no pool is open
Quiescent ==
    /\ \A f \in Futures : fstate[f] = "done"
    /\ work_queue = <<>>
    /\ workers = 0
    /\ pool \in {"none", "closed"}

\* nothing of the run has started
NothingStarted ==
    /\ pool = "none"
    /\ workers = 0
    /\ drawn = 0
    /\ Len(fstate) = 0
    /\ calls = 0
    /\ advances = 0
    /\ ret = None

\* ----------------------------------------------------------------- claims
\* C1: with a function that succeeds on every item, run_parallel returns
\* normally a list of exactly n results whose multiset is that of func(item)
\* over the inputs.
C1_AllSucceedReturnsAll ==
    (Terminated /\ ValidConfig /\ AllSucceed) =>
        /\ pc = "returned"
        /\ Len(Returned) = N
        /\ SameBag(Returned, ValuesOf(1, 1..N))

\* C2: with k failing items, run_parallel returns normally exactly n-k
\* results, the values of the succeeding items, and logger.error receives
\* exactly k entries, one per failing item, each naming its item.
C2_FailuresLogged ==
    (Terminated /\ ValidConfig) =>
        /\ pc = "returned"
        /\ Len(Returned) = N - Cardinality(Failing)
        /\ SameBag(Returned, ValuesOf(1, Succeeding))
        /\ Len(log) = Cardinality(Failing)
        /\ SameBag([j \in DOMAIN log |-> log[j].item], ItemsOf(1, Failing))

\* C3: by the time run_parallel returns, the progress sink has been
\* advanced exactly n times for n submitted items.
C3_AdvancesEqualItems ==
    (Terminated /\ ValidConfig) => advances = N

\* C4: an exception of the user function never propagates out of
\* run_parallel; every submitted task completes and every succeeding item's
\* value is in the returned list.
C4_FailSoft ==
    (Terminated /\ ValidConfig) =>
        /\ pc = "returned"
        /\ Len(fstate) = N
        /\ \A f \in Futures : fstate[f] = "done"
        /\ \A i \in Succeeding : func(iterable[i]) \in ToSet(Returned)

\* C5: a strategy tag other than the recognized ones (recognition ignores
\* case) makes run_parallel raise ValueError before a pool is created,
\* a task is submitted or started, or the progress advances; nothing is
\* returned.
Unrecognized == Lower(executor) \notin {thread, process}

C5_BadTagRaisesFirst ==
    Unrecognized =>
        /\ NothingStarted
        /\ ExecPool = "none"
        /\ pc \in {"call", "raised"}
        /\ pc = "raised" => error = "ValueError"

C5_Witness ==
    /\ Unrecognized
    /\ pc = "raised"
    /\ error = "ValueError"
    /\ N > 0

\* C6: a zero or negative max_workers makes run_parallel raise ValueError
\* before any work starts: no task is submitted, func is never called, the
\* iterable is not iterated and the progress does not advance.
NonPositive == max_workers # None /\ max_workers[1] <= 0

C6_BadWorkersRaisesFirst ==
    NonPositive =>
        /\ NothingStarted
        /\ pc \in {"call", "probe", "create", "raised"}
        /\ pc = "raised" => error = "ValueError"

C6_Witness ==
    /\ NonPositive
    /\ ~Unrecognized
    /\ pc = "raised"
    /\ error = "ValueError"
    /\ ExecPool # "none"
    /\ N > 0

\* C7: the aggregator processes each submitted task's completion exactly
\* once, so each item contributes exactly one value or exactly one failure
\* record.
C7_OneOutcomePerItem ==
    (Terminated /\ ValidConfig) =>
        /\ Len(fstate) = N
        /\ \A f \in Futures : handled[f] = 1 /\ CountIn(yielded, f) = 1
        /\ Len(results) + Len(log) = N

\* C8: run_parallel terminates, and when control leaves it no task is
\* pending or running and no worker is alive: the pool has been torn down.
C8_TerminatesQuiescent ==
    /\ <>Terminated
    /\ [](Terminated => Quiescent)

C8_Witness ==
    /\ Terminated
    /\ pool = "closed"
    /\ N >= 2
    /\ Len(doneOrder) = N
    /\ Cardinality(initDone) < N
    /\ calls = N

\* C9: the returned list is in completion order: the values of the
\* succeeding items, in the order the pool reported their completions.
C9_CompletionOrder ==
    (Terminated /\ ValidConfig) =>
        /\ pc = "returned"
        /\ Len(yielded) = N
        /\ Returned = [j \in 1..Len(SelectSeq(yielded, LAMBDA f : f \in Succeeding)) |->
                          func(iterable[SelectSeq(yielded, LAMBDA f : f \in Succeeding)[j]])]

\* C10: for an always-succeeding function the i-th element of the returned
\* list is func of the i-th input item.
C10_InputOrder ==
    (Terminated /\ ValidConfig /\ AllSucceed) =>
        /\ pc = "returned"
        /\ Returned = [i \in 1..N |-> func(iterable[i])]

\* C11: two standalone calls of the progress wrapper over the same static
\* sequence are independent: each has its own counter starting at zero,
\* each yields every item once in the original order, and a step of one
\* wrapper never changes the other.
BarConsistent(b) ==
    /\ b.out = SubSeq(iterable, 1, b.pos)
    /\ b.n = IF b.closed \/ b.pos = 0 THEN b.pos ELSE b.pos - 1
    /\ b.closed => (b.out = iterable /\ b.n = N)

C11_IndependentWrappers ==
    /\ [](\A w \in DOMAIN bars : bars[w].made => BarConsistent(bars[w]))
    /\ [][\A w \in DOMAIN bars : bars'[w] # bars[w] =>
              \A v \in DOMAIN bars \ {w} : bars'[v] = bars[v]]_vars

C11_Witness ==
    /\ N >= 2
    /\ bars[1].made /\ bars[2].made
    /\ bars[1].pos = 2 /\ bars[1].n = 1
    /\ bars[2].pos = 1 /\ bars[2].n = 0

\* C12: every task is submitted up front: all n items are submitted before
\* the first completion is taken and before the first progress advance, and
\* nothing is submitted afterwards.
ConsumptionStarted == Len(yielded) > 0 \/ advances > 0

C12_SubmittedUpFront ==
    /\ [](ConsumptionStarted => (Len(fstate) = N /\ drawn = N))
    /\ [][ConsumptionStarted => (Len(fstate') = Len(fstate) /\ drawn' = drawn)]_vars

C12_Witness ==
    /\ Len(yielded) = 1
    /\ N >= 2
    /\ Len(fstate) = N
    /\ \E f \in Futures : fstate[f] # "done"

\* C13: only the calling thread, in its loop body, ever appends to the
\* result list or writes a failure record; no step of a worker changes
\* either.
C13_SingleWriter ==
    /\ [][Worker => UNCHANGED <<results, log>>]_vars
    /\ [][(results' # results \/ log' # log) => pc = "body"]_vars

C13_Witness ==
    /\ pc = "body"
    /\ Running # {}
    /\ doneOrder # <<>>
    /\ results = <<>>
    /\ log = <<>>

\* C14: the tasks executing func at the same time never outnumber the
\* configured max_workers, a positive integer; the other submitted tasks
\* that are not finished wait in the pool's queue.
ConfiguredLimit == IF max_workers = None THEN HostParallelism ELSE max_workers[1]

C14_BoundedParallelism ==
    pool # "none" =>
        /\ ConfiguredLimit >= 1
        /\ Cardinality(Running) <= ConfiguredLimit
        /\ workers <= ConfiguredLimit
        /\ \A f \in Futures : fstate[f] = "pending" <=> f \in ToSet(work_queue)

C14_Witness ==
    /\ Cardinality(Running) = ConfiguredLimit
    /\ work_queue # <<>>
    /\ Len(fstate) > ConfiguredLimit

\* C15: the iterable is iterated exactly once: the length probe draws no
\* item, each item is drawn once and one task is submitted per item, in the
\* original order, also when the length cannot be determined.
C15_SinglePass ==
    /\ drawn = Len(args)
    /\ Len(fstate) = Len(args)
    /\ drawn <= N
    /\ args = SubSeq(iterable, 1, drawn)
    /\ pc = "create" => drawn = 0
    /\ pc \in {"next", "body", "exit", "returned"} => args = iterable

C15_Witness ==
    /\ ~hasLen
    /\ pc = "next"
    /\ N >= 2
    /\ args = iterable

C17_LookupDefined ==
    pc = "body" => future \in DOMAIN future_to_item

\* C18: the tag is validated whatever its casing: every casing of 'thread'
\* selects the thread pool, every casing of 'process' the process pool, and
\* exactly the other tags are rejected with ValueError.
CasePairs ==
    {<<"t", "T">>, <<"h", "H">>, <<"r", "R">>, <<"e", "E">>, <<"a", "A">>,
     <<"d", "D">>, <<"p", "P">>, <<"o", "O">>, <<"c", "C">>, <<"s", "S">>}

CasingOf(t, word) ==
    /\ Len(t) = Len(word)
    /\ \A i \in DOMAIN word : t[i] = word[i] \/ <<word[i], t[i]>> \in CasePairs

C18_CaseInsensitive ==
    pc # "call" =>
        /\ CasingOf(executor, thread) => ExecPool = "ThreadPoolExecutor"
        /\ CasingOf(executor, process) => ExecPool = "ProcessPoolExecutor"
        /\ (~CasingOf(executor, thread) /\ ~CasingOf(executor, process)) =>
              (pc = "raised" /\ error = "ValueError" /\ ExecPool = "none")

C18_Witness ==
    /\ executor # thread
    /\ CasingOf(executor, thread)
    /\ ExecPool = "ThreadPoolExecutor"
    /\ pool = "open"

\* C19: for an empty input with a valid configuration run_parallel returns
\* an empty list; no task is submitted, func is not called, the progress
\* does not advance, nothing is logged, and the pool is created and torn
\* down.
C19_EmptyInput ==
    (N = 0 /\ ~Unrecognized /\ ~NonPositive) =>
        /\ Len(fstate) = 0
        /\ calls = 0
        /\ advances = 0
        /\ log = <<>>
        /\ workers = 0
        /\ pc \in {"submit", "next", "exit", "returned"} => pool # "none"
        /\ Terminated => (pc = "returned" /\ ret = Some(<<>>) /\ pool = "closed")

C19_Witness ==
    /\ N = 0
    /\ pc = "returned"
    /\ ret = Some(<<>>)
    /\ pool = "closed"

====
